---- MODULE Spec2Model ----
(***************************************************************************)
(* The dependency-aware supervisor of ai-runlevel.mjs: the readiness gate  *)
(* of main(), the nine spawnLoop instances started by startAgent, and the  *)
(* shared set startedAgents.                                               *)
(*                                                                         *)
(* Node runs one callback at a time, to completion.  Every action below is *)
(* one such run (the code between two awaits), or one event of the         *)
(* environment: a child process dying, a launch script being installed.    *)
(*                                                                         *)
(* The module also holds the two boot scripts that share the Ollama latch  *)
(* file with the supervisor, start-pm2.sh and ollama-startup, with one     *)
(* action per command of a script, and the two HTTP servers of             *)
(* server/server.mjs: the WEBTRACON server (SSE clients, broadcast, POST   *)
(* /api/prompt) and the nexus-control server (SSE clients, sendToClients), *)
(* with the api bridge of nexus-control (post, generate); the start_agent  *)
(* and stop_agent functions of archive/ai.sh; and the pure function        *)
(* evaluateCubeLogic of nexus-logic.mjs.                                   *)
(* Each program has its own variables and its own specification; the       *)
(* variables of the other programs stay as they are.                       *)
(***************************************************************************)
EXTENDS Integers, Sequences, FiniteSets, TLC

\* ---------------------------------------------------------------- bounds
\* Child-process deaths explored in one run.
MaxExits == 2
\* Launch scripts that may be absent when the supervisor starts: those of the
\* root of the table, of an inner agent and of a leaf.
MayBeMissing == {"CORE", "LOOP", "COIN"}
\* Agents whose process may die again and again, without count, when starvation
\* is examined: the root of the table and an agent that depends on it.
Flapping == {"CORE", "LOOP"}
\* Spawn calls that may fail in one run.
MaxSpawnErrors == 1
\* Cap of the retry counter; the code itself never gets past MaxRetries + 1.
RetryCap == 18

\* Failed health requests of ollama-startup that are counted; more may follow.
MaxCurlFails == 3

\* SSE connections made to a server in one run.
MaxConns == 2
\* POST /api/prompt requests in one run.
MaxReqs == 1
\* Chunks the inference server streams in one run.
MaxChunks == 2
\* Calls of generate of the api bridge in one run.
MaxCalls == 1
\* 'data' events of one response of the inference server.
MaxData == 2
\* Heartbeat loops that ai.sh starts in one run.
MaxStarts == 3
\* The agents of ai.sh that are started and stopped: two of the eight.
ShAgents == {"CUBE", "CORE"}
\* The largest COIN passed to evaluateCubeLogic; the smallest is -1.
MaxCoin == 12
\* Milliseconds that pass on the clock of nexus-control in one run.
MaxClock == 1

\* ------------------------------------------------------ program constants
\* `retries > 15`: the retry budget of the readiness gate.
MaxRetries == 15

\* MAX_RETRIES=15 of start-pm2.sh.
MAX_RETRIES == 15

\* Object.keys(DEPENDENCIES), in insertion order.
AGENTS == <<"CORE", "WAVE", "LOOP", "COIN", "SIGN", "WORK", "CUBE", "CODE", "LINE">>

AgentNames == {AGENTS[i] : i \in 1..Len(AGENTS)}

\* The table with CORE, the root, made to depend on LINE.
DEPENDENCIES_coreAfterLine ==
    [a \in AgentNames |->
        CASE a = "CORE" -> {"LINE"}
          [] a = "WAVE" -> {"CORE"}
          [] a = "LOOP" -> {"CORE"}
          [] a = "COIN" -> {"CORE"}
          [] a = "SIGN" -> {"CORE"}
          [] a = "WORK" -> {"CORE", "LOOP"}
          [] a = "CUBE" -> {"CORE", "WAVE"}
          [] a = "CODE" -> {"CORE", "WORK"}
          [] a = "LINE" -> {"CORE", "SIGN"}]

\* The table with WORK left out of the entry of CODE.
DEPENDENCIES_codeWithoutWork ==
    [a \in AgentNames |->
        CASE a = "CORE" -> {}
          [] a = "WAVE" -> {"CORE"}
          [] a = "LOOP" -> {"CORE"}
          [] a = "COIN" -> {"CORE"}
          [] a = "SIGN" -> {"CORE"}
          [] a = "WORK" -> {"CORE", "LOOP"}
          [] a = "CUBE" -> {"CORE", "WAVE"}
          [] a = "CODE" -> {"CORE"}
          [] a = "LINE" -> {"CORE", "SIGN"}]

DEPENDENCIES ==
    [a \in AgentNames |->
        CASE a = "CORE" -> {}
          [] a = "WAVE" -> {"CORE"}
          [] a = "LOOP" -> {"CORE"}
          [] a = "COIN" -> {"CORE"}
          [] a = "SIGN" -> {"CORE"}
          [] a = "WORK" -> {"CORE", "LOOP"}
          [] a = "CUBE" -> {"CORE", "WAVE"}
          [] a = "CODE" -> {"CORE", "WORK"}
          [] a = "LINE" -> {"CORE", "SIGN"}]

\* The table with one more entry: agent a also lists dep.
WithDependency(a, dep) == [DEPENDENCIES EXCEPT ![a] = @ \cup {dep}]

\* Tables the supervisor is built with when the cycle claim is examined: the
\* table of the source, and that table with one entry added: a self-dependency,
\* a cycle of two, a cycle of three, a cycle through the root, and an entry
\* that closes no cycle.
Tables ==
    {DEPENDENCIES,
     WithDependency("COIN", "COIN"),
     WithDependency("WAVE", "CUBE"),
     WithDependency("LOOP", "CODE"),
     WithDependency("CORE", "LINE"),
     WithDependency("LINE", "COIN")}

\* What spawn("node", [script]) can do: start the child; fail with the
\* ChildProcess object complete (the 'error' event follows on the next tick);
\* fail without stdio streams (proc.stdout.pipe then throws inside spawnLoop and
\* the 'error' event follows as well).
SpawnResults == {"ok", "error", "error_nostdio"}

VARIABLES
    depTable,       \* the DEPENDENCIES table the supervisor was built with
    mainPc,         \* main(): "check" | "sleep" | "orchestrate" | "done"
    retries,        \* main()'s local `retries`
    latch,          \* OLLAMA_LATCH exists
    latch0,         \* OLLAMA_LATCH existed when main() started
    healthLog,      \* result of the HTTP request of every checkOllamaReady call
    idx,            \* position of AGENTS.forEach
    runlevelLatch,  \* runlevel.latch has been written
    pc,             \* per agent, where its spawnLoop stands
    procs,          \* per agent, the number of its child processes alive
    startedAgents,  \* the Set startedAgents
    scripts,        \* agents whose nexus-<name>.mjs exists
    pendingError,   \* an 'error' event without listener is queued
    supervisor,     \* "up" | "crashed": the Node process of the supervisor
    exits,          \* child-process deaths so far
    spawnErrors,    \* failed spawn calls so far
    pm2Pc,          \* start-pm2.sh: "while" | "sleep" | "if" | "force" | "pm2" | "started"
    RETRY,          \* start-pm2.sh: $RETRY
    ollamaLatch,    \* content of $OLLAMA_LATCH as the boot scripts see it, or "absent"
    startupPc,      \* ollama-startup: "curl" | "sleep" | "touch" | "tail"
    curlLast,       \* ollama-startup: outcome of its last curl: "none" | "ok" | "fail"
    curlFails,      \* ollama-startup: failed curl calls, counted up to MaxCurlFails
    sseClients,     \* WEBTRACON: the array sseClients, one client object per connection
    conn,           \* WEBTRACON: per connection "none" | "open" | "dropped" | "closed"
    wrote,          \* WEBTRACON: connections the step just taken wrote a broadcast to
    reqs,           \* WEBTRACON: per POST /api/prompt request, where its handler stands
    clients,        \* nexus-control: the array clients, of records {id, conn}
    nexusConn,      \* nexus-control: per connection "none" | "open" | "dropped" | "closed"
    clientId,       \* nexus-control: the clientId captured by a connection's 'close' listener
    now,            \* nexus-control: Date.now()
    sentTo,         \* nexus-control: connections the step just taken wrote an event to
    gen,            \* api.mjs of nexus-control: per call of generate, where it stands
    heartbeats,     \* ai.sh: per agent, the PIDs of its heartbeat loops that run
    pidfile,        \* ai.sh: per agent, the PID in $LOG_DIR/<agent>.pid, 0 when the file is absent
    lastPid,        \* ai.sh: the PID given to the last background process
    lastCall,       \* ai.sh: per agent, how the last call on it ended
    cubeState,      \* nexus-logic.mjs: the state passed to evaluateCubeLogic
    cubeResult      \* nexus-logic.mjs: what evaluateCubeLogic returned for it

\* The variables of the supervisor and those of the boot scripts.
supVars == <<depTable, mainPc, retries, latch, latch0, healthLog, idx, runlevelLatch,
             pc, procs, startedAgents, scripts, pendingError, supervisor, exits,
             spawnErrors>>

bootVars == <<pm2Pc, RETRY, ollamaLatch, startupPc, curlLast, curlFails>>

webVars == <<sseClients, conn, wrote, reqs>>

nexusVars == <<clients, nexusConn, clientId, now, sentTo>>

apiVars == <<gen>>

shVars == <<heartbeats, pidfile, lastPid, lastCall>>

cubeVars == <<cubeState, cubeResult>>

\* What a step of the supervisor leaves alone.
otherPrograms == <<bootVars, webVars, nexusVars, apiVars, shVars, cubeVars>>

vars == <<supVars, bootVars, webVars, nexusVars, apiVars, shVars, cubeVars>>

mainVars == <<mainPc, retries, latch, healthLog, idx, runlevelLatch>>
loopVars == <<pc, procs, startedAgents, pendingError, spawnErrors>>

\* ------------------------------------------------------------ readiness
\* checkOllamaReady answering true in its catch branch.
checkOllamaReady_catchTrue(httpOk) == TRUE

\* checkOllamaReady with the latch fallback left out.
checkOllamaReady_httpOnly(httpOk) == httpOk

\* checkOllamaReady: true when the HTTP request answers 200, otherwise whether
\* the latch file exists.
checkOllamaReady(httpOk) == httpOk \/ latch

\* The timeout test with >= for >, with the test dropped, and never true.
ForceLatch_ge(r) == r >= MaxRetries

ForceLatch_always(r) == TRUE

ForceLatch_early(r) == r > 1

ForceLatch_never(r) == FALSE

\* `if (retries > 15)`, evaluated after retries++.
ForceLatch(r) == r > MaxRetries

\* One evaluation of the while condition of main(): await checkOllamaReady().
GateCheck ==
    /\ supervisor = "up"
    /\ mainPc = "check"
    /\ \E httpOk \in BOOLEAN :
        /\ healthLog' = Append(healthLog, httpOk)
        /\ IF checkOllamaReady(httpOk)
             THEN mainPc' = "orchestrate" /\ idx' = 1
             ELSE mainPc' = "sleep" /\ idx' = idx
    /\ UNCHANGED otherPrograms
    /\ UNCHANGED <<depTable, retries, latch, latch0, runlevelLatch, scripts,
                   supervisor, exits>>
    /\ UNCHANGED loopVars

\* The body of the while loop after sleep(2000) resolves: retries++, and the
\* placeholder latch once the budget is spent.
GateSleep ==
    /\ supervisor = "up"
    /\ mainPc = "sleep"
    /\ retries < RetryCap
    /\ retries' = retries + 1
    /\ latch' = (latch \/ ForceLatch(retries'))
    /\ mainPc' = "check"
    /\ UNCHANGED otherPrograms
    /\ UNCHANGED <<depTable, latch0, healthLog, idx, runlevelLatch, scripts,
                   supervisor, exits>>
    /\ UNCHANGED loopVars

\* ------------------------------------------------------------ spawnLoop
\* The dependency check skipped.
AllDepsStarted_always(a) == TRUE

\* deps.some for deps.every.
AllDepsStarted_some(a) ==
    depTable[a] = {} \/ \E dep \in depTable[a] : dep \in startedAgents

\* deps.every(dep => startedAgents.has(dep))
AllDepsStarted(a) == \A dep \in depTable[a] : dep \in startedAgents

\* The script check skipped.
ScriptExists_always(a) == TRUE

\* fs.existsSync(script)
ScriptExists(a) == a \in scripts

\* Lines 107-131: spawn, pipe the output, add the name, wait for 'exit'.
Spawn(a, res) ==
    CASE res = "ok" ->
            /\ procs' = [procs EXCEPT ![a] = @ + 1]
            /\ startedAgents' = startedAgents \cup {a}
            /\ pc' = [pc EXCEPT ![a] = "running"]
            /\ UNCHANGED <<pendingError, spawnErrors>>
      [] res = "error" ->
            /\ spawnErrors < MaxSpawnErrors
            /\ spawnErrors' = spawnErrors + 1
            /\ startedAgents' = startedAgents \cup {a}
            /\ pc' = [pc EXCEPT ![a] = "running"]
            /\ pendingError' = TRUE
            /\ UNCHANGED procs
      [] res = "error_nostdio" ->
            /\ spawnErrors < MaxSpawnErrors
            /\ spawnErrors' = spawnErrors + 1
            /\ pc' = [pc EXCEPT ![a] = "rejected"]
            /\ pendingError' = TRUE
            /\ UNCHANGED <<procs, startedAgents>>

\* One pass of the while (true) body, up to its next await.
SpawnLoopIteration(a) ==
    IF ~AllDepsStarted(a)
      THEN /\ pc' = [pc EXCEPT ![a] = "waitDeps"]
           /\ UNCHANGED <<procs, startedAgents, pendingError, spawnErrors>>
      ELSE IF ~ScriptExists(a)
        THEN /\ pc' = [pc EXCEPT ![a] = "waitScript"]
             /\ UNCHANGED <<procs, startedAgents, pendingError, spawnErrors>>
        ELSE \E res \in SpawnResults : Spawn(a, res)

\* The event loop is free to run a timer or an 'exit' callback.
Idle == supervisor = "up" /\ mainPc = "done" /\ ~pendingError

\* main() writing runlevel.latch before the forEach instead of after it.
StartAgent_latchFirst ==
    /\ supervisor = "up"
    /\ mainPc = "orchestrate"
    /\ SpawnLoopIteration(AGENTS[idx])
    /\ runlevelLatch' = TRUE
    /\ IF idx = Len(AGENTS)
         THEN /\ mainPc' = "done"
              /\ retries' = 0
              /\ healthLog' = <<>>
              /\ idx' = idx
         ELSE /\ idx' = idx + 1
              /\ UNCHANGED <<mainPc, retries, healthLog>>
    /\ UNCHANGED otherPrograms
    /\ UNCHANGED <<depTable, latch, latch0, scripts, supervisor, exits>>

\* AGENTS.forEach(agent => startAgent(agent)): startAgent runs the first pass of
\* the agent's spawnLoop synchronously.  After the last agent main() writes
\* runlevel.latch and returns; its local `retries` ends with it, and so does
\* the record of its health requests.
StartAgent ==
    /\ supervisor = "up"
    /\ mainPc = "orchestrate"
    /\ SpawnLoopIteration(AGENTS[idx])
    /\ IF idx = Len(AGENTS)
         THEN /\ mainPc' = "done"
              /\ runlevelLatch' = TRUE
              /\ retries' = 0
              /\ healthLog' = <<>>
              /\ idx' = idx
         ELSE /\ idx' = idx + 1
              /\ UNCHANGED <<mainPc, runlevelLatch, retries, healthLog>>
    /\ UNCHANGED otherPrograms
    /\ UNCHANGED <<depTable, latch, latch0, scripts, supervisor, exits>>

\* The restart timer set outside the 'exit' listener: it also fires while the
\* child is running.
TimerPending_noExitWait(a) == pc[a] \in {"waitDeps", "waitScript", "delay", "running"}

\* A spawnLoop is suspended in sleep(1000), sleep(5000) or the 2 s restart delay.
TimerPending(a) == pc[a] \in {"waitDeps", "waitScript", "delay"}

\* The timer of agent a fires and its loop runs the next pass.
TimerFires(a) ==
    /\ Idle
    /\ TimerPending(a)
    /\ SpawnLoopIteration(a)
    /\ UNCHANGED otherPrograms
    /\ UNCHANGED <<depTable, latch0, scripts, supervisor, exits>>
    /\ UNCHANGED mainVars

\* The 'exit' listener also removing the workers that list a as a dependency.
MarkDead_cascade(a) == startedAgents \ ({a} \cup {b \in AgentNames : a \in depTable[b]})

\* The 'exit' listener clearing the whole set.
MarkDead_clear(a) == {}

\* The 'exit' listener without the delete.
MarkDead_keep(a) == startedAgents

\* startedAgents.delete(agentName) in the 'exit' listener.
MarkDead(a) == startedAgents \ {a}

\* The 'exit' listener of agent a runs: the name is removed and the restart
\* delay starts.
OnExit(a) ==
    /\ Idle
    /\ pc[a] = "running"
    /\ procs[a] = 0
    /\ startedAgents' = MarkDead(a)
    /\ pc' = [pc EXCEPT ![a] = "delay"]
    /\ UNCHANGED otherPrograms
    /\ UNCHANGED <<depTable, latch0, procs, pendingError, spawnErrors, scripts, supervisor,
                   exits>>
    /\ UNCHANGED mainVars

\* The queued 'error' event is emitted; no listener is registered for it on the
\* ChildProcess, so it is thrown and ends the supervisor.
UncaughtError ==
    /\ supervisor = "up"
    /\ mainPc = "done"
    /\ pendingError
    /\ supervisor' = "crashed"
    /\ UNCHANGED otherPrograms
    /\ UNCHANGED <<depTable, latch0, scripts, exits>>
    /\ UNCHANGED mainVars
    /\ UNCHANGED loopVars

\* The log stream of a running agent fails (the file cannot be opened or
\* written); no 'error' listener is registered on it either.
LogStreamError(a) ==
    /\ Idle
    /\ pc[a] = "running"
    /\ supervisor' = "crashed"
    /\ UNCHANGED otherPrograms
    /\ UNCHANGED <<depTable, latch0, scripts, exits>>
    /\ UNCHANGED mainVars
    /\ UNCHANGED loopVars

\* ---------------------------------------------------------- environment
\* The death of the child process itself taking the name out of startedAgents.
ProcDies_marksDead(a) ==
    /\ supervisor = "up"
    /\ procs[a] > 0
    /\ exits < MaxExits
    /\ procs' = [procs EXCEPT ![a] = @ - 1]
    /\ exits' = exits + 1
    /\ startedAgents' = startedAgents \ {a}
    /\ UNCHANGED otherPrograms
    /\ UNCHANGED <<depTable, latch0, pc, pendingError, spawnErrors, scripts, supervisor>>
    /\ UNCHANGED mainVars

\* The child process of agent a terminates (any code, any signal).
ProcDies(a) ==
    /\ supervisor = "up"
    /\ procs[a] > 0
    /\ exits < MaxExits
    /\ procs' = [procs EXCEPT ![a] = @ - 1]
    /\ exits' = exits + 1
    /\ UNCHANGED otherPrograms
    /\ UNCHANGED <<depTable, latch0, pc, startedAgents, pendingError, spawnErrors, scripts,
                   supervisor>>
    /\ UNCHANGED mainVars

\* The child process of agent a terminates, as in ProcDies, any number of times.
ProcFlaps(a) ==
    /\ supervisor = "up"
    /\ procs[a] > 0
    /\ procs' = [procs EXCEPT ![a] = @ - 1]
    /\ UNCHANGED otherPrograms
    /\ UNCHANGED <<depTable, latch0, pc, startedAgents, pendingError, spawnErrors, scripts,
                   supervisor, exits>>
    /\ UNCHANGED mainVars

\* Somebody installs the launch script of agent a.
InstallScript(a) ==
    /\ supervisor = "up"
    /\ a \notin scripts
    /\ scripts' = scripts \cup {a}
    /\ UNCHANGED otherPrograms
    /\ UNCHANGED <<depTable, latch0, supervisor, exits>>
    /\ UNCHANGED mainVars
    /\ UNCHANGED loopVars

\* ----------------------------------------------------------- start-pm2.sh
\* What $OLLAMA_LATCH can hold: nothing (touch), what start-pm2.sh writes, what
\* the supervisor writes.
LatchContents == {"EMPTY", "LATCH_FORCED", "LATCH_BYPASS"}

\* The loop test with -le for -lt.
WaitMore_le(absent, r) == absent /\ r <= MAX_RETRIES

\* [ ! -f "$OLLAMA_LATCH" ] && [ $RETRY -lt $MAX_RETRIES ]
WaitMore(absent, r) == absent /\ r < MAX_RETRIES

\* The timeout branch taken whatever the test says.
ForceNeeded_always(absent) == TRUE

\* if [ ! -f "$OLLAMA_LATCH" ]
ForceNeeded(absent) == absent

\* The test of the while loop.
Pm2While ==
    /\ pm2Pc = "while"
    /\ pm2Pc' = IF WaitMore(ollamaLatch = "absent", RETRY) THEN "sleep" ELSE "if"
    /\ UNCHANGED <<RETRY, ollamaLatch, startupPc, curlLast, curlFails>>
    /\ UNCHANGED <<supVars, webVars, nexusVars, apiVars, shVars, cubeVars>>

\* sleep $SLEEP_INTERVAL; ((RETRY++))
Pm2Sleep ==
    /\ pm2Pc = "sleep"
    /\ RETRY' = RETRY + 1
    /\ pm2Pc' = "while"
    /\ UNCHANGED <<ollamaLatch, startupPc, curlLast, curlFails>>
    /\ UNCHANGED <<supVars, webVars, nexusVars, apiVars, shVars, cubeVars>>

\* The test after the loop.
Pm2If ==
    /\ pm2Pc = "if"
    /\ pm2Pc' = IF ForceNeeded(ollamaLatch = "absent") THEN "force" ELSE "pm2"
    /\ UNCHANGED <<RETRY, ollamaLatch, startupPc, curlLast, curlFails>>
    /\ UNCHANGED <<supVars, webVars, nexusVars, apiVars, shVars, cubeVars>>

\* echo "LATCH_FORCED" > "$OLLAMA_LATCH"
Pm2Force ==
    /\ pm2Pc = "force"
    /\ ollamaLatch' = "LATCH_FORCED"
    /\ pm2Pc' = "pm2"
    /\ UNCHANGED <<RETRY, startupPc, curlLast, curlFails>>
    /\ UNCHANGED <<supVars, webVars, nexusVars, apiVars, shVars, cubeVars>>

\* pm2 start ...
Pm2Start ==
    /\ pm2Pc = "pm2"
    /\ pm2Pc' = "started"
    /\ UNCHANGED <<RETRY, ollamaLatch, startupPc, curlLast, curlFails>>
    /\ UNCHANGED <<supVars, webVars, nexusVars, apiVars, shVars, cubeVars>>

\* --------------------------------------------------------- ollama-startup
\* The loop test without its negation.
CurlLoopContinues_noBang(ok) == ok

\* while ! curl -sf ...
CurlLoopContinues(ok) == ~ok

\* One curl call of the loop test: the request succeeds or fails.
StartupCurl ==
    /\ startupPc = "curl"
    /\ \E ok \in BOOLEAN :
        /\ curlLast' = IF ok THEN "ok" ELSE "fail"
        /\ curlFails' = IF ~ok /\ curlFails < MaxCurlFails THEN curlFails + 1 ELSE curlFails
        /\ startupPc' = IF CurlLoopContinues(ok) THEN "sleep" ELSE "touch"
    /\ UNCHANGED <<pm2Pc, RETRY, ollamaLatch>>
    /\ UNCHANGED <<supVars, webVars, nexusVars, apiVars, shVars, cubeVars>>

\* sleep 1
StartupSleep ==
    /\ startupPc = "sleep"
    /\ startupPc' = "curl"
    /\ UNCHANGED <<pm2Pc, RETRY, ollamaLatch, curlLast, curlFails>>
    /\ UNCHANGED <<supVars, webVars, nexusVars, apiVars, shVars, cubeVars>>

\* touch "$LATCH_FILE": creates the file empty, or leaves its content.  Then
\* tail -f /dev/null, for ever.
StartupTouch ==
    /\ startupPc = "touch"
    /\ ollamaLatch' = IF ollamaLatch = "absent" THEN "EMPTY" ELSE ollamaLatch
    /\ startupPc' = "tail"
    /\ UNCHANGED <<pm2Pc, RETRY, curlLast, curlFails>>
    /\ UNCHANGED <<supVars, webVars, nexusVars, apiVars, shVars, cubeVars>>

\* The boot scripts before they are started.
BootAtRest ==
    /\ pm2Pc = "while"
    /\ RETRY = 0
    /\ ollamaLatch = "absent"
    /\ startupPc = "curl"
    /\ curlLast = "none"
    /\ curlFails = 0

\* ------------------------------------------------- WEBTRACON server.mjs
Conns == 1..MaxConns

Reqs == 1..MaxReqs

\* The elements of an array.
Range(seq) == {seq[i] : i \in 1..Len(seq)}

\* The 'close' listener dropping the first client of the array.
Without_first(seq, c) == Tail(seq)

\* sseClients.filter(c => c !== client)
Without(seq, c) == SelectSeq(seq, LAMBDA x : x # c)

\* The prompt of a body without a prompt field.
Undefined == <<"undefined">>

\* The prompts of the request bodies: no field, the empty string, blanks only,
\* a word, a word between blanks.
Prompts == {Undefined, <<>>, <<" ">>, <<" ", " ">>, <<"a">>, <<" ", "a", " ">>}

\* String.prototype.trim
RECURSIVE trim(_)
trim(str) ==
    IF str = <<>> THEN str
    ELSE IF Head(str) = " " THEN trim(Tail(str))
    ELSE IF str[Len(str)] = " " THEN trim(SubSeq(str, 1, Len(str) - 1))
    ELSE str

\* !prompt?.trim()
EmptyPrompt(prompt) == prompt = Undefined \/ trim(prompt) = <<>>

\* The texts of the chunks of a stream.
Tokens == {"a", "b"}

\* The objects the stream yields: {response, done}.
Chunks == [response : Tokens, done : BOOLEAN]

\* The payloads the handler broadcasts.
TokenEvent(chunk) == [agent |-> "Ollama", response |-> chunk.response]
DoneEvent == [agent |-> "Ollama", response |-> "[DONE]"]
ErrorEvent == [agent |-> "SYSTEM", response |-> "[ERROR]"]

\* The loop going on after a chunk marked done.
ChunkEnds_never(chunk) == FALSE

\* if (chunk.done) break
ChunkEnds(chunk) == chunk.done

\* A request that has not arrived.  `received` holds the chunks its stream has
\* yielded, `events` the payloads its handler has broadcast.
NoRequest == [pc |-> "none", prompt |-> Undefined, responses |-> 0,
              status |-> 0, caught |-> FALSE, calls |-> 0,
              received |-> <<>>, events |-> <<>>]

\* GET /events: the handler registers a client object for the connection.
SseConnect(c) ==
    /\ conn[c] = "none"
    /\ conn' = [conn EXCEPT ![c] = "open"]
    /\ sseClients' = Append(sseClients, c)
    /\ wrote' = {}
    /\ UNCHANGED reqs
    /\ UNCHANGED <<supVars, bootVars, nexusVars, apiVars, shVars, cubeVars>>

\* The peer closes the connection; the 'close' event has not been emitted yet.
SseDrop(c) ==
    /\ conn[c] = "open"
    /\ conn' = [conn EXCEPT ![c] = "dropped"]
    /\ wrote' = {}
    /\ UNCHANGED <<sseClients, reqs>>
    /\ UNCHANGED <<supVars, bootVars, nexusVars, apiVars, shVars, cubeVars>>

\* req.on('close', ...) of connection c runs.
SseClose(c) ==
    /\ conn[c] = "dropped"
    /\ conn' = [conn EXCEPT ![c] = "closed"]
    /\ sseClients' = Without(sseClients, c)
    /\ wrote' = {}
    /\ UNCHANGED reqs
    /\ UNCHANGED <<supVars, bootVars, nexusVars, apiVars, shVars, cubeVars>>

\* broadcast(eventObj): sseClients.forEach(c => c.res.write(payload))
broadcast == wrote' = Range(sseClients)

\* POST /api/prompt arrives: the handler runs up to `await generate(...)`, or
\* answers 400.
PostPrompt(r, prompt) ==
    /\ reqs[r].pc = "none"
    /\ reqs' = [reqs EXCEPT ![r] =
                   IF EmptyPrompt(prompt)
                     THEN [@ EXCEPT !.pc = "done", !.prompt = prompt,
                                    !.responses = @ + 1, !.status = 400]
                     ELSE [@ EXCEPT !.pc = "generating", !.prompt = prompt,
                                    !.calls = @ + 1]]
    /\ wrote' = {}
    /\ UNCHANGED <<sseClients, conn>>
    /\ UNCHANGED <<supVars, bootVars, nexusVars, apiVars, shVars, cubeVars>>

\* The inference server answers: post() resolves with the stream, and the
\* handler sends {status: 'queued'}.
GenerateResolves(r) ==
    /\ reqs[r].pc = "generating"
    /\ reqs' = [reqs EXCEPT ![r] = [@ EXCEPT !.pc = "streaming",
                                             !.responses = @ + 1, !.status = 200]]
    /\ wrote' = {}
    /\ UNCHANGED <<sseClients, conn>>
    /\ UNCHANGED <<supVars, bootVars, nexusVars, apiVars, shVars, cubeVars>>

\* The request to the inference server fails: post() rejects, the await throws
\* and the catch block broadcasts the error.
GenerateRejects(r) ==
    /\ reqs[r].pc = "generating"
    /\ reqs' = [reqs EXCEPT ![r] = [@ EXCEPT !.pc = "done", !.caught = TRUE,
                                             !.events = Append(@, ErrorEvent)]]
    /\ broadcast
    /\ UNCHANGED <<sseClients, conn>>
    /\ UNCHANGED <<supVars, bootVars, nexusVars, apiVars, shVars, cubeVars>>

\* The chunks the streams of the requests up to r have yielded.
RECURSIVE Streamed(_)
Streamed(r) == IF r = 0 THEN 0 ELSE Len(reqs[r].received) + Streamed(r - 1)

\* for await (const chunk of stream): the stream yields a chunk and the body of
\* the loop runs; a chunk marked done leaves the loop, and [DONE] is broadcast.
StreamChunk(r, chunk) ==
    /\ reqs[r].pc = "streaming"
    /\ Streamed(MaxReqs) < MaxChunks
    /\ reqs' = [reqs EXCEPT ![r] =
                   IF ChunkEnds(chunk)
                     THEN [@ EXCEPT !.pc = "done",
                                    !.received = Append(@, chunk),
                                    !.events = Append(@, DoneEvent)]
                     ELSE [@ EXCEPT !.received = Append(@, chunk),
                                    !.events = Append(@, TokenEvent(chunk))]]
    /\ broadcast
    /\ UNCHANGED <<sseClients, conn>>
    /\ UNCHANGED <<supVars, bootVars, nexusVars, apiVars, shVars, cubeVars>>

\* The stream ends without a chunk marked done: the loop ends, and [DONE] is
\* broadcast.
StreamDone(r) ==
    /\ reqs[r].pc = "streaming"
    /\ reqs' = [reqs EXCEPT ![r] = [@ EXCEPT !.pc = "done",
                                             !.events = Append(@, DoneEvent)]]
    /\ broadcast
    /\ UNCHANGED <<sseClients, conn>>
    /\ UNCHANGED <<supVars, bootVars, nexusVars, apiVars, shVars, cubeVars>>

\* The stream fails while it is read: the catch block broadcasts the error.
StreamError(r) ==
    /\ reqs[r].pc = "streaming"
    /\ reqs' = [reqs EXCEPT ![r] = [@ EXCEPT !.pc = "done", !.caught = TRUE,
                                             !.events = Append(@, ErrorEvent)]]
    /\ broadcast
    /\ UNCHANGED <<sseClients, conn>>
    /\ UNCHANGED <<supVars, bootVars, nexusVars, apiVars, shVars, cubeVars>>

\* The WEBTRACON server listening, with no connection and no request yet.
WebAtRest ==
    /\ sseClients = <<>>
    /\ conn = [c \in Conns |-> "none"]
    /\ wrote = {}
    /\ reqs = [r \in Reqs |-> NoRequest]

\* ---------------------------------------------------- nexus-control.mjs
\* The 'close' listener comparing client objects.
WithoutId_byConn(seq, id, c) == SelectSeq(seq, LAMBDA x : x.conn # c)

\* clients.filter(c => c.id !== clientId)
WithoutId(seq, id, c) == SelectSeq(seq, LAMBDA x : x.id # id)

\* GET /events: clientId = Date.now(); clients.push({id: clientId, res}).
NexusConnect(c) ==
    /\ nexusConn[c] = "none"
    /\ nexusConn' = [nexusConn EXCEPT ![c] = "open"]
    /\ clientId' = [clientId EXCEPT ![c] = now]
    /\ clients' = Append(clients, [id |-> now, conn |-> c])
    /\ sentTo' = {}
    /\ UNCHANGED now
    /\ UNCHANGED <<supVars, bootVars, webVars, apiVars, shVars, cubeVars>>

\* The peer closes the connection; the 'close' event has not been emitted yet.
NexusDrop(c) ==
    /\ nexusConn[c] = "open"
    /\ nexusConn' = [nexusConn EXCEPT ![c] = "dropped"]
    /\ sentTo' = {}
    /\ UNCHANGED <<clients, clientId, now>>
    /\ UNCHANGED <<supVars, bootVars, webVars, apiVars, shVars, cubeVars>>

\* req.on('close', ...) of connection c runs.
NexusClose(c) ==
    /\ nexusConn[c] = "dropped"
    /\ nexusConn' = [nexusConn EXCEPT ![c] = "closed"]
    /\ clients' = WithoutId(clients, clientId[c], c)
    /\ sentTo' = {}
    /\ UNCHANGED <<clientId, now>>
    /\ UNCHANGED <<supVars, bootVars, webVars, apiVars, shVars, cubeVars>>

\* sendToClients(data): clients.forEach(client => client.res.write(...))
SendToClients ==
    /\ sentTo' = {clients[i].conn : i \in 1..Len(clients)}
    /\ UNCHANGED <<clients, nexusConn, clientId, now>>
    /\ UNCHANGED <<supVars, bootVars, webVars, apiVars, shVars, cubeVars>>

\* A millisecond passes.
NexusTick ==
    /\ now < MaxClock
    /\ now' = now + 1
    /\ sentTo' = {}
    /\ UNCHANGED <<clients, nexusConn, clientId>>
    /\ UNCHANGED <<supVars, bootVars, webVars, apiVars, shVars, cubeVars>>

\* The nexus-control server listening, with no connection yet.
NexusAtRest ==
    /\ clients = <<>>
    /\ nexusConn = [c \in Conns |-> "none"]
    /\ clientId = [c \in Conns |-> 0]
    /\ now = 0
    /\ sentTo = {}

\* ------------------------------------------- api.mjs of nexus-control
Calls == 1..MaxCalls

\* options.stream of a call: absent, true or false.
StreamOptions == {"unset", "on", "off"}

\* stream: !!onToken || options.stream || false, ...options
PayloadStream(onToken, opt) == IF opt = "unset" THEN onToken ELSE opt = "on"

\* The lines of a 'data' chunk: an object with a text, the object that ends
\* the stream (no text, done), a line that is not JSON.
Lines == Tokens \cup {"done", "broken"}

\* The 'data' chunks: one line or two.
DataChunks == {<<l>> : l \in Lines} \cup {<<l, m>> : l \in Lines, m \in Lines}

\* The texts of the lines of a chunk that parse and have a response.
Responses(chunk) == SelectSeq(chunk, LAMBDA l : l \in Tokens)

\* How a response of the inference server ends: with a 2xx status and a body
\* that is one JSON object, with another status, with a body that is not JSON.
Outcomes == {"ok", "status", "parse"}

\* if (onToken) return fullResponse
ReturnsAfterFirst(onToken) == onToken

\* No call of generate.
NoCall == [pc |-> "idle", onToken |-> FALSE, stream |-> FALSE, sent |-> 0,
           data |-> 0, tokens |-> <<>>, fullResponse |-> <<>>, result |-> <<>>]

\* generate(prompt, model, options, onToken) runs up to `await post(...)`:
\* post() writes the first request.
Generate(k, onToken, opt) ==
    /\ gen[k].pc = "idle"
    /\ gen' = [gen EXCEPT ![k] = [@ EXCEPT !.pc = "post1", !.onToken = onToken,
                                           !.stream = PayloadStream(onToken, opt),
                                           !.sent = @ + 1]]
    /\ UNCHANGED <<supVars, bootVars, webVars, nexusVars, shVars, cubeVars>>

\* res.on('data'): with onChunk the lines of the chunk are parsed and every
\* response text goes to onToken and to fullResponse; without, data += chunk.
OnData(k, chunk) ==
    /\ gen[k].pc \in {"post1", "post2"}
    /\ gen[k].data < MaxData
    /\ gen' = [gen EXCEPT ![k] =
                  IF gen[k].pc = "post1" /\ gen[k].onToken
                    THEN [@ EXCEPT !.data = @ + 1,
                                   !.tokens = @ \o Responses(chunk),
                                   !.fullResponse = @ \o Responses(chunk)]
                    ELSE [@ EXCEPT !.data = @ + 1]]
    /\ UNCHANGED <<supVars, bootVars, webVars, nexusVars, shVars, cubeVars>>

\* res.on('end') of the first request: post() settles and generate goes on,
\* to its return or to `await post('/api/generate', payload)`, which writes
\* another request.
FirstEnds(k, outcome) ==
    /\ gen[k].pc = "post1"
    /\ gen' = [gen EXCEPT ![k] =
                  IF gen[k].onToken \/ outcome = "ok"
                    THEN IF ReturnsAfterFirst(gen[k].onToken)
                           THEN [@ EXCEPT !.pc = "returned", !.result = gen[k].fullResponse]
                           ELSE [@ EXCEPT !.pc = "post2", !.sent = @ + 1, !.data = 0]
                    ELSE [@ EXCEPT !.pc = "thrown"]]
    /\ UNCHANGED <<supVars, bootVars, webVars, nexusVars, shVars, cubeVars>>

\* res.on('end') of the second request: return response.response, or throw.
SecondEnds(k, outcome, text) ==
    /\ gen[k].pc = "post2"
    /\ gen' = [gen EXCEPT ![k] =
                  IF outcome = "ok"
                    THEN [@ EXCEPT !.pc = "returned", !.result = <<text>>]
                    ELSE [@ EXCEPT !.pc = "thrown"]]
    /\ UNCHANGED <<supVars, bootVars, webVars, nexusVars, shVars, cubeVars>>

\* req.on('error'): post() rejects, generate logs and throws.
RequestError(k) ==
    /\ gen[k].pc \in {"post1", "post2"}
    /\ gen' = [gen EXCEPT ![k] = [@ EXCEPT !.pc = "thrown"]]
    /\ UNCHANGED <<supVars, bootVars, webVars, nexusVars, shVars, cubeVars>>

\* The api bridge loaded, generate not called yet.
ApiAtRest == gen = [k \in Calls |-> NoCall]

\* ------------------------------------------------------- archive/ai.sh
\* What ollama_check and resolve_model find: the server unreachable, no model
\* available, a model.
Lookups == {"offline", "nomodel", "model"}

\* agent_is_up: [ -f "$pidfile" ] && ps -p "$(cat "$pidfile")"
agent_is_up(a) == pidfile[a] # 0 /\ pidfile[a] \in heartbeats[a]

\* start_agent "$agent": ollama_check and resolve_model may return 1; then the
\* heartbeat loop is started in the background and $! is written to the pidfile.
start_agent(a, found) ==
    /\ lastPid < MaxStarts
    /\ IF found = "model"
         THEN /\ lastPid' = lastPid + 1
              /\ heartbeats' = [heartbeats EXCEPT ![a] = @ \cup {lastPid + 1}]
              /\ pidfile' = [pidfile EXCEPT ![a] = lastPid + 1]
              /\ lastCall' = [lastCall EXCEPT ![a] = "started"]
         ELSE /\ lastCall' = [lastCall EXCEPT ![a] = "skipped"]
              /\ UNCHANGED <<heartbeats, pidfile, lastPid>>
    /\ UNCHANGED <<supVars, bootVars, webVars, nexusVars, apiVars, cubeVars>>

\* stop_agent "$agent": with a pidfile, kill the process it names and remove
\* the file; without, nothing.
stop_agent(a) ==
    /\ IF pidfile[a] # 0
         THEN /\ heartbeats' = [heartbeats EXCEPT ![a] = @ \ {pidfile[a]}]
              /\ pidfile' = [pidfile EXCEPT ![a] = 0]
         ELSE UNCHANGED <<heartbeats, pidfile>>
    /\ lastCall' = [lastCall EXCEPT ![a] = "stopped"]
    /\ UNCHANGED lastPid
    /\ UNCHANGED <<supVars, bootVars, webVars, nexusVars, apiVars, cubeVars>>

\* A heartbeat loop is killed from outside ai.sh; its pidfile stays.
HeartbeatKilled(a, p) ==
    /\ p \in heartbeats[a]
    /\ heartbeats' = [heartbeats EXCEPT ![a] = @ \ {p}]
    /\ UNCHANGED <<pidfile, lastPid, lastCall>>
    /\ UNCHANGED <<supVars, bootVars, webVars, nexusVars, apiVars, cubeVars>>

\* No agent of ai.sh started, no pidfile.
ShAtRest ==
    /\ heartbeats = [a \in ShAgents |-> {}]
    /\ pidfile = [a \in ShAgents |-> 0]
    /\ lastPid = 0
    /\ lastCall = [a \in ShAgents |-> "none"]

\* ------------------------------------------------------ nexus-logic.mjs
\* The values of COIN: below, in and above the range 1-10, odd and even.
Coins == -1..MaxCoin

\* The values of CODE: empty, a blank, a word, a word followed by a blank, a
\* word preceded by a blank.
Codes == {<<>>, <<" ">>, <<"x">>, <<"x", " ">>, <<" ", "x">>}

\* The states { CORE, LOOP, WAVE, COIN, CODE }.
CubeStates == [CORE : BOOLEAN, LOOP : BOOLEAN, WAVE : BOOLEAN, COIN : Coins, CODE : Codes]

\* CODE.endsWith(" ") and CODE.startsWith(" ")
endsWith(str, ch) == str # <<>> /\ str[Len(str)] = ch
startsWith(str, ch) == str # <<>> /\ Head(str) = ch

\* output: null
Null == <<"null">>

Failure(message) == [success |-> FALSE, message |-> message, output |-> Null]

\* if (LOOP === false) return { success: true, ... }
Rule2Returns(state) == state.LOOP = FALSE

evaluateCubeLogic(state) ==
    LET CORE == state.CORE
        LOOP == state.LOOP
        WAVE == state.WAVE
        COIN == state.COIN
        CODE == state.CODE
        coinInRange == COIN >= 1 /\ COIN <= 10
    IN  IF CORE = TRUE THEN Failure("FAILURE: CORE is true.")
        ELSE IF ~WAVE /\ CORE # FALSE
          THEN Failure("INVALID STATE: No WAVE requires CORE to be false.")
        ELSE IF ~LOOP /\ ~WAVE
          THEN Failure("FAILURE: Neither LOOP nor WAVE exist while CORE is false.")
        ELSE IF Rule2Returns(state)
          THEN [success |-> TRUE, message |-> "SUCCESS: LOOP is false, CODE ignored.",
                output |-> Null]
        ELSE IF WAVE = TRUE /\ COIN % 2 # 0
          THEN Failure("FAILURE: WAVE is true but COIN is not even.")
        ELSE IF WAVE = TRUE /\ ~endsWith(CODE, " ")
          THEN Failure("FAILURE: WAVE is true but CODE not followed by space.")
        ELSE IF LOOP = TRUE /\ WAVE = TRUE
          THEN Failure("FAILURE: LOOP and WAVE conflict on COIN parity.")
        ELSE IF LOOP = TRUE /\ COIN % 2 = 0
          THEN Failure("FAILURE: LOOP is true but COIN is not odd (Rule 7).")
        ELSE IF LOOP = TRUE /\ startsWith(CODE, " ")
          THEN Failure("FAILURE: LOOP is true but CODE is preceded by space.")
        ELSE [success |-> TRUE, message |-> "EXECUTION COMPLETE",
              output |-> IF LOOP = TRUE /\ ~coinInRange THEN CODE ELSE Null]

\* evaluateCubeLogic has not been called.
NotEvaluated == [success |-> FALSE, message |-> "", output |-> Null]

\* Test Scenario 3
Scenario3 == [CORE |-> FALSE, LOOP |-> FALSE, WAVE |-> TRUE, COIN |-> 4,
              CODE |-> <<"x", " ">>]

\* A caller passes a state to evaluateCubeLogic.
Evaluate ==
    /\ cubeResult = NotEvaluated
    /\ cubeResult' = evaluateCubeLogic(cubeState)
    /\ UNCHANGED cubeState
    /\ UNCHANGED <<supVars, bootVars, webVars, nexusVars, apiVars, shVars>>

\* The module loaded, evaluateCubeLogic not called.
CubeAtRest == cubeState = Scenario3 /\ cubeResult = NotEvaluated

\* ------------------------------------------------------- specifications
InitCommon ==
    /\ mainPc = "check"
    /\ retries = 0
    /\ latch0 \in BOOLEAN
    /\ latch = latch0
    /\ healthLog = <<>>
    /\ idx = 0
    /\ runlevelLatch = FALSE
    /\ pc = [a \in AgentNames |-> "init"]
    /\ procs = [a \in AgentNames |-> 0]
    /\ startedAgents = {}
    /\ scripts \in {AgentNames \ m : m \in SUBSET MayBeMissing}
    /\ pendingError = FALSE
    /\ supervisor = "up"
    /\ exits = 0
    /\ spawnErrors = 0
    /\ BootAtRest
    /\ WebAtRest
    /\ NexusAtRest
    /\ CubeAtRest
    /\ ShAtRest
    /\ ApiAtRest

Init == InitCommon /\ depTable = DEPENDENCIES

Next ==
    \/ GateCheck
    \/ GateSleep
    \/ StartAgent
    \/ \E a \in AgentNames : TimerFires(a)
    \/ \E a \in AgentNames : OnExit(a)
    \/ UncaughtError
    \/ \E a \in AgentNames : LogStreamError(a)
    \/ \E a \in AgentNames : ProcDies(a)
    \/ \E a \in AgentNames : InstallScript(a)

Spec == Init /\ [][Next]_vars

\* The supervisor built with any table of Tables, started with every launch
\* script in place but possibly that of the leaf COIN.
InitTables ==
    /\ InitCommon
    /\ AgentNames \ {"COIN"} \subseteq scripts
    /\ depTable \in Tables

SpecTables == InitTables /\ [][Next]_vars

\* The event loop resolves every pending HTTP request and timer of main().
FairSpec == Spec /\ WF_vars(GateCheck) /\ WF_vars(GateSleep)

\* The event loop also runs main() to its end, fires every timer of a
\* spawnLoop, delivers every 'exit' event and emits every queued 'error' event.
\* Nothing obliges a process to die, a script to appear or a log stream to fail.
LoopFairness ==
    /\ WF_vars(StartAgent)
    /\ WF_vars(UncaughtError)
    /\ \A a \in AgentNames : WF_vars(TimerFires(a)) /\ WF_vars(OnExit(a))

FairLoopSpec == FairSpec /\ LoopFairness

\* The supervisor before main() is called, with the table of the source, every
\* script in place and no latch.
SupervisorAtRest ==
    /\ depTable = DEPENDENCIES
    /\ mainPc = "check"
    /\ retries = 0
    /\ latch0 = FALSE
    /\ latch = FALSE
    /\ healthLog = <<>>
    /\ idx = 0
    /\ runlevelLatch = FALSE
    /\ pc = [a \in AgentNames |-> "init"]
    /\ procs = [a \in AgentNames |-> 0]
    /\ startedAgents = {}
    /\ scripts = AgentNames
    /\ pendingError = FALSE
    /\ supervisor = "up"
    /\ exits = 0
    /\ spawnErrors = 0

\* start-pm2.sh and ollama-startup started on a machine where the latch file
\* is absent or was left by an earlier boot.
InitBoot ==
    /\ SupervisorAtRest
    /\ WebAtRest
    /\ NexusAtRest
    /\ CubeAtRest
    /\ ShAtRest
    /\ ApiAtRest
    /\ pm2Pc = "while"
    /\ RETRY = 0
    /\ ollamaLatch \in LatchContents \cup {"absent"}
    /\ startupPc = "curl"
    /\ curlLast = "none"
    /\ curlFails = 0

NextBoot ==
    \/ Pm2While
    \/ Pm2Sleep
    \/ Pm2If
    \/ Pm2Force
    \/ Pm2Start
    \/ StartupCurl
    \/ StartupSleep
    \/ StartupTouch

BootSpec == InitBoot /\ [][NextBoot]_vars

\* The WEBTRACON server receiving SSE connections and prompt requests.
InitWeb == SupervisorAtRest /\ BootAtRest /\ NexusAtRest /\ WebAtRest
    /\ ApiAtRest
    /\ ShAtRest
    /\ CubeAtRest

NextWeb ==
    \/ \E c \in Conns : SseConnect(c)
    \/ \E c \in Conns : SseDrop(c)
    \/ \E c \in Conns : SseClose(c)
    \/ \E r \in Reqs, prompt \in Prompts : PostPrompt(r, prompt)
    \/ \E r \in Reqs : GenerateResolves(r)
    \/ \E r \in Reqs : GenerateRejects(r)
    \/ \E r \in Reqs, chunk \in Chunks : StreamChunk(r, chunk)
    \/ \E r \in Reqs : StreamDone(r)
    \/ \E r \in Reqs : StreamError(r)

WebSpec == InitWeb /\ [][NextWeb]_vars

\* The nexus-control server receiving SSE connections while its agents send.
InitNexus == SupervisorAtRest /\ BootAtRest /\ WebAtRest /\ NexusAtRest
    /\ ApiAtRest
    /\ ShAtRest
    /\ CubeAtRest

NextNexus ==
    \/ \E c \in Conns : NexusConnect(c)
    \/ \E c \in Conns : NexusDrop(c)
    \/ \E c \in Conns : NexusClose(c)
    \/ SendToClients
    \/ NexusTick

NexusSpec == InitNexus /\ [][NextNexus]_vars

\* The api bridge of nexus-control with its callers and the inference server.
InitApi == SupervisorAtRest /\ BootAtRest /\ WebAtRest /\ NexusAtRest /\ ApiAtRest
    /\ ShAtRest /\ CubeAtRest

NextApi ==
    \/ \E k \in Calls, onToken \in BOOLEAN, opt \in StreamOptions : Generate(k, onToken, opt)
    \/ \E k \in Calls, chunk \in DataChunks : OnData(k, chunk)
    \/ \E k \in Calls, outcome \in Outcomes : FirstEnds(k, outcome)
    \/ \E k \in Calls, outcome \in Outcomes, text \in Tokens : SecondEnds(k, outcome, text)
    \/ \E k \in Calls : RequestError(k)

ApiSpec == InitApi /\ [][NextApi]_vars

\* ai.sh: calls of start_agent and stop_agent, one after the other.
InitSh == SupervisorAtRest /\ BootAtRest /\ WebAtRest /\ NexusAtRest /\ ApiAtRest
    /\ ShAtRest /\ CubeAtRest

NextSh ==
    \/ \E a \in ShAgents, found \in Lookups : start_agent(a, found)
    \/ \E a \in ShAgents : stop_agent(a)
    \/ \E a \in ShAgents, p \in 1..MaxStarts : HeartbeatKilled(a, p)

ShSpec == InitSh /\ [][NextSh]_vars

\* evaluateCubeLogic applied to every state of CubeStates.
InitCube == SupervisorAtRest /\ BootAtRest /\ WebAtRest /\ NexusAtRest /\ ApiAtRest
    /\ ShAtRest /\ cubeState \in CubeStates /\ cubeResult = NotEvaluated

NextCube == Evaluate

CubeSpec == InitCube /\ [][NextCube]_vars

\* Each shell runs its next command; every curl and every sleep returns.
FairBootSpec ==
    /\ BootSpec
    /\ WF_vars(Pm2While) /\ WF_vars(Pm2Sleep) /\ WF_vars(Pm2If)
    /\ WF_vars(Pm2Force) /\ WF_vars(Pm2Start)
    /\ WF_vars(StartupCurl) /\ WF_vars(StartupSleep) /\ WF_vars(StartupTouch)

\* The supervisor with the processes of the agents of Flapping dying without
\* bound (and no other process dying).
NextFlap ==
    \/ GateCheck
    \/ GateSleep
    \/ StartAgent
    \/ \E a \in AgentNames : TimerFires(a)
    \/ \E a \in AgentNames : OnExit(a)
    \/ UncaughtError
    \/ \E a \in AgentNames : LogStreamError(a)
    \/ \E a \in Flapping : ProcFlaps(a)
    \/ \E a \in AgentNames : InstallScript(a)

FlapSpec == Init /\ [][NextFlap]_vars

\* The same scheduling as FairLoopSpec.  A timer that fires while a dependency
\* is out of startedAgents runs a pass that changes nothing: the pass that
\* launches is possible only while every dependency is in the set, and nothing
\* makes a timer fire inside that window.
FairFlapSpec == FlapSpec /\ WF_vars(GateCheck) /\ WF_vars(GateSleep) /\ LoopFairness

\* ------------------------------------------------------------ properties
\* The while loop of main() has ended and main() has not returned yet.
GateReturned == mainPc = "orchestrate"

\* Every health request of the gate failed.
AllFailed == \A i \in 1..Len(healthLog) : ~healthLog[i]

\* This step spawns (or tries to spawn) the process of agent a.
Spawns(a) == pc[a] \notin {"running", "rejected"} /\ pc'[a] \in {"running", "rejected"}

AllRunning == \A a \in AgentNames : pc[a] = "running" /\ procs[a] = 1

\* C1: whenever a worker is spawned, first launch or relaunch, every name of its
\* DEPENDENCIES entry is in startedAgents when its dependency check runs, and
\* still when the spawn has been done: check and spawn are one step.
C1_DepsLiveAtSpawn ==
    [][\A a \in AgentNames :
          Spawns(a) => /\ DEPENDENCIES[a] \subseteq startedAgents
                       /\ DEPENDENCIES[a] \subseteq startedAgents']_vars

\* A worker with two dependencies runs, after some process has died.
C1_Witness ==
    /\ mainPc = "done"
    /\ exits >= 1
    /\ pc["CODE"] = "running" /\ procs["CODE"] = 1
    /\ {"CORE", "WORK"} \subseteq startedAgents

\* C2: at most one child process of a worker is alive, and a process is spawned
\* only by a loop that holds none: before its first launch, or after the exit
\* of the previous one was observed and its timer has fired.
C2_AtMostOneProcess ==
    [][\A a \in AgentNames :
          /\ procs[a] <= 1 /\ procs'[a] <= 1
          /\ procs'[a] > procs[a] =>
                /\ procs[a] = 0
                /\ pc[a] \in {"init", "waitDeps", "waitScript", "delay"}]_vars

\* One process has died and all nine workers run again: the one that died was
\* relaunched.
C2_Witness == exits = 1 /\ AllRunning /\ supervisor = "up"

\* C3 as stated: no worker is launched on the strength of a dependency whose
\* process has already exited.
C3_NoLaunchOnExitedDependency ==
    [][\A b \in AgentNames :
          (Spawns(b) /\ spawnErrors' = 0) =>
              \A d \in DEPENDENCIES[b] : procs[d] > 0]_vars

\* C3 amended: once the 'exit' listener of a worker has run its name is out of
\* startedAgents, and a worker is launched only while the loop of each of its
\* dependencies has spawned and has not yet seen an exit.
C3_NoLaunchOnObservedExit ==
    [][/\ \A a \in AgentNames : pc'[a] = "delay" => a \notin startedAgents'
       /\ \A b \in AgentNames :
             Spawns(b) => \A d \in DEPENDENCIES[b] : pc[d] = "running"]_vars

\* The exit of CORE has been observed while WAVE, whose own process died too,
\* is held back by its dependency check.
C3_Witness ==
    /\ pc["CORE"] = "delay" /\ "CORE" \notin startedAgents
    /\ pc["WAVE"] = "waitDeps" /\ procs["WAVE"] = 0
    /\ exits = 2 /\ scripts = AgentNames

\* The agents reachable from S along at most n dependency entries of table t.
RECURSIVE Closure(_, _, _)
Closure(t, S, n) ==
    IF n = 0 THEN S
    ELSE Closure(t, S \cup UNION {t[x] : x \in S}, n - 1)

\* The direct and transitive dependencies of agent a in table t.
DepsOf(t, a) == Closure(t, t[a], Len(AGENTS))

\* Table t has a cycle (a self-dependency included).
HasCycle(t) == \E a \in AgentNames : a \in DepsOf(t, a)

\* Agents of table t that lie on a cycle or depend on an agent that does.
BehindCycle(t) ==
    {a \in AgentNames : \E c \in DepsOf(t, a) \cup {a} : c \in DepsOf(t, c)}

\* BehindCycle of every table of Tables.
Blocked == [t \in Tables |-> BehindCycle(t)]

\* The tables of Tables that have a cycle.
CyclicTables == {t \in Tables : HasCycle(t)}

\* C4 as stated: no failure of one worker ends the supervisor or the loop of
\* another worker.
C4_Isolation == supervisor = "up"

C6_ReadyAfterMaxRetries ==
    (GateReturned /\ ~latch0 /\ AllFailed) =>
        Len(healthLog) = MaxRetries /\ latch

\* C6 amended: in that case the gate returns on check attempt MaxRetries + 2,
\* after MaxRetries + 1 sleeps, the latch in place.
C6_ReadyAfterForcedLatch ==
    (GateReturned /\ ~latch0 /\ AllFailed) =>
        /\ Len(healthLog) = MaxRetries + 2
        /\ retries = MaxRetries + 1
        /\ latch

\* The gate has returned although every health request failed and no latch was
\* there at the start.
C6_Witness == GateReturned /\ ~latch0 /\ AllFailed /\ Len(healthLog) > 1

\* C7: no latch at the start, health requests one and two fail and the third
\* succeeds: the gate returns after exactly three attempts and two sleeps, and
\* the latch has not been created.
C7_ReadyOnThirdCheck ==
    (~latch0 /\ Len(healthLog) >= 3 /\ ~healthLog[1] /\ ~healthLog[2] /\ healthLog[3]) =>
        /\ GateReturned
        /\ Len(healthLog) = 3
        /\ retries = 2
        /\ ~latch

\* The gate has returned on a third health request that succeeded.
C7_Witness ==
    GateReturned /\ ~latch0 /\ healthLog = <<FALSE, FALSE, TRUE>> /\ idx = 1

\* C8: whatever the health requests answer and whether or not the latch is
\* there at the start, the gate returns, after at most MaxRetries + 2 check
\* attempts, and the supervisor is up while the gate runs and when it returns.
C8_GateTerminates ==
    /\ <>GateReturned
    /\ [](Len(healthLog) <= MaxRetries + 2 /\ retries <= MaxRetries + 1)
    /\ [](mainPc \in {"check", "sleep"} => supervisor = "up" /\ ~pendingError)

\* The gate has returned on its last possible attempt.
C8_Witness == GateReturned /\ Len(healthLog) = MaxRetries + 2 /\ supervisor = "up"

\* C9: with the latch there at the start the gate returns on its first check
\* attempt, with no retry and no sleep, also when the health request fails.
C9_StaleLatchPassesAtOnce ==
    latch0 =>
        /\ retries = 0
        /\ mainPc # "sleep"
        /\ Len(healthLog) <= 1
        /\ Len(healthLog) = 1 => GateReturned

\* The gate has returned on a failed health request, on the latch alone.
C9_Witness == GateReturned /\ latch0 /\ healthLog = <<FALSE>> /\ retries = 0

\* C10: the latch is created only by the timeout branch of main(), when
\* retries has passed MaxRetries, and once it exists it exists ever after; no
\* step of a worker loop changes it.
C10_LatchOnlyForcedNeverDeleted ==
    [][/\ latch => latch'
       /\ latch' # latch => mainPc = "sleep" /\ retries' > MaxRetries
       /\ mainPc = "done" => latch' = latch]_vars

\* The forced latch is still there after worker loops have run and a worker
\* has been restarted.
C10_Witness == latch /\ ~latch0 /\ exits = 1 /\ AllRunning

\* C11: while the gate has not returned no loop has started, no process has
\* been spawned and startedAgents is empty; the gate returns only on a check
\* that found the service or the latch; and once main() has left the gate it
\* never goes back into it.
C11_GateBeforeWorkers ==
    [][/\ mainPc' \in {"check", "sleep"} =>
             /\ startedAgents' = {}
             /\ \A a \in AgentNames : pc'[a] = "init" /\ procs'[a] = 0
       /\ (mainPc # "orchestrate" /\ mainPc' = "orchestrate") =>
             /\ mainPc = "check"
             /\ Len(healthLog') = Len(healthLog) + 1
             /\ healthLog'[Len(healthLog')] \/ latch
       /\ mainPc \in {"orchestrate", "done"} => mainPc' \in {"orchestrate", "done"}]_vars

\* The gate retried twice, returned on the third check, and the first worker
\* has been launched since.
C11_Witness ==
    /\ mainPc = "orchestrate" /\ idx = 2
    /\ Len(healthLog) = 3 /\ retries = 2
    /\ startedAgents = {"CORE"} /\ procs["CORE"] = 1

\* The launch order the table asks for: <<worker, dependency>>.
LaunchOrder ==
    {<<"WAVE", "CORE">>, <<"LOOP", "CORE">>, <<"COIN", "CORE">>, <<"SIGN", "CORE">>,
     <<"WORK", "CORE">>, <<"WORK", "LOOP">>, <<"CUBE", "CORE">>, <<"CUBE", "WAVE">>,
     <<"CODE", "CORE">>, <<"CODE", "WORK">>, <<"LINE", "CORE">>, <<"LINE", "SIGN">>}

\* C12: a worker is launched, the first time as every later time, only in a
\* state in which each of its dependencies has been marked live; and as long
\* as main() is starting the loops, a worker that has been launched has all its
\* dependencies in startedAgents.
C12_StartupOrder ==
    [][\A p \in LaunchOrder :
          /\ Spawns(p[1]) => p[2] \in startedAgents
          /\ (mainPc' = "orchestrate" /\ pc'[p[1]] = "running") =>
                p[2] \in startedAgents']_vars

\* Every script is there and main() is about to start the last loop: the
\* other eight workers run, launched in the order of the table.
C12_Witness ==
    /\ mainPc = "orchestrate" /\ idx = Len(AGENTS)
    /\ scripts = AgentNames
    /\ startedAgents = AgentNames \ {"LINE"}
    /\ \A a \in AgentNames \ {"LINE"} : procs[a] = 1
    /\ exits = 0

\* The workers that do not depend on agent m, directly or transitively.
Independent(m) == {w \in AgentNames \ {m} : m \notin DepsOf(DEPENDENCIES, w)}

\* C13 as stated: a worker whose launch script never exists, the script of
\* every other worker being there, is never spawned and never in
\* startedAgents, and every worker that does not depend on it becomes live.
C13_MissingScriptIsolated ==
    \A m \in MayBeMissing :
        [](scripts = AgentNames \ {m}) =>
            /\ [](m \notin startedAgents /\ procs[m] = 0)
            /\ \A w \in Independent(m) : <>(w \in startedAgents)

\* C13 in the runs in which no spawn call fails: what is left of it once the
\* failures of C4 are set aside.
C13_MissingScriptIsolatedWithoutFailures ==
    \A m \in MayBeMissing :
        ([](scripts = AgentNames \ {m}) /\ [](spawnErrors = 0)) =>
            /\ [](m \notin startedAgents /\ procs[m] = 0)
            /\ \A w \in Independent(m) : <>(w \in startedAgents)

\* This step is the death of the process of agent a.
Dies(a) == procs'[a] < procs[a]

\* This step is the run of the 'exit' listener of agent a.
ExitObserved(a) == pc[a] = "running" /\ pc'[a] = "delay"

\* C14: neither the death of a worker's process nor the run of its 'exit'
\* listener touches another worker: the listener removes that one name from
\* startedAgents, and every other worker, its dependents included, keeps its
\* process, its loop state and its place in startedAgents.
C14_NoCascadingStop ==
    [][\A a \in AgentNames :
          /\ Dies(a) => startedAgents' = startedAgents
          /\ ExitObserved(a) => startedAgents' = startedAgents \ {a}
          /\ (Dies(a) \/ ExitObserved(a)) =>
                \A b \in AgentNames \ {a} : procs'[b] = procs[b] /\ pc'[b] = pc[b]]_vars

\* The exit of CORE has been observed; all eight workers that depend on it
\* still run and are still in startedAgents.
C14_Witness ==
    /\ pc["CORE"] = "delay"
    /\ startedAgents = AgentNames \ {"CORE"}
    /\ \A b \in AgentNames \ {"CORE"} : pc[b] = "running" /\ procs[b] = 1

\* C15: a name enters startedAgents only in the step that spawns that worker,
\* leaves it only in the step that runs that worker's 'exit' listener, and no
\* step changes the membership of two names.
C15_OwnMembershipOnly ==
    [][/\ \A a \in startedAgents' \ startedAgents : Spawns(a) /\ pc'[a] = "running"
       /\ \A a \in startedAgents \ startedAgents' : ExitObserved(a) /\ procs[a] = 0
       /\ Cardinality((startedAgents' \ startedAgents)
                        \cup (startedAgents \ startedAgents')) <= 1]_vars

\* WORK has been removed by its own 'exit' listener while CODE, which depends
\* on it, and LOOP, on which it depends, stay in startedAgents.
C15_Witness ==
    /\ pc["WORK"] = "delay" /\ "WORK" \notin startedAgents
    /\ {"CORE", "LOOP", "CODE"} \subseteq startedAgents
    /\ exits = 1

\* C16: CORE, which has no dependencies, is launched again after every
\* observed exit of its process, however many exits came before.
C16_RelaunchedAfterEveryExit ==
    [](DEPENDENCIES["CORE"] = {} /\ "CORE" \in scripts) =>
        ((pc["CORE"] = "delay") ~> (pc["CORE"] = "running" /\ procs["CORE"] = 1))

\* The same in the runs in which the supervisor stays up.
C16_RelaunchedWhileSupervisorUp ==
    [](supervisor = "up") =>
        ((pc["CORE"] = "delay") ~> (pc["CORE"] = "running" /\ procs["CORE"] = 1))

\* The steps of the lifecycle: a pass of the loop (from its start, from one of
\* its waits or from the restart delay) ends waiting on dependencies, waiting
\* on the script, or with the child running; a running child leaves only by
\* its observed exit, into the restart delay.
CycleSteps ==
    ({"init", "waitDeps", "waitScript", "delay"} \X {"waitDeps", "waitScript", "running"})
        \cup {<<"running", "delay">>}

\* C17: every change of a loop's state is a step of the lifecycle, a child
\* comes to run only in a pass that found the dependencies live and the
\* script present, and every state the loop reaches lies on the cycle.
C17_LifecycleCycle ==
    [][\A a \in AgentNames :
          pc'[a] # pc[a] =>
              /\ <<pc[a], pc'[a]>> \in CycleSteps
              /\ pc'[a] = "running" => AllDepsStarted(a) /\ ScriptExists(a)]_vars

\* The same for the steps in which no spawn fails.
C17_LifecycleCycleUnlessSpawnFails ==
    [][\A a \in AgentNames :
          (pc'[a] # pc[a] /\ spawnErrors' = spawnErrors) =>
              /\ <<pc[a], pc'[a]>> \in CycleSteps
              /\ pc'[a] = "running" => AllDepsStarted(a) /\ ScriptExists(a)]_vars

\* C18: a pass of a worker's loop ends waiting on dependencies exactly when
\* some name of its DEPENDENCIES entry is missing from startedAgents (never for
\* a worker with an empty entry), and a pass that ends there has changed
\* neither startedAgents nor any process nor another loop's state.
C18_DependencyCheck ==
    [][\A a \in AgentNames :
          (pc[a] \in {"init", "waitDeps", "waitScript", "delay"} /\ pc'[a] # pc[a]) =>
              /\ pc'[a] = "waitDeps" <=> ~(DEPENDENCIES[a] \subseteq startedAgents)
              /\ DEPENDENCIES[a] = {} => pc'[a] # "waitDeps"
              /\ pc'[a] = "waitDeps" =>
                    /\ startedAgents' = startedAgents
                    /\ procs' = procs
                    /\ \A b \in AgentNames \ {a} : pc'[b] = pc[b]]_vars

\* WORK waits on its dependencies with CORE live and LOOP not, while WAVE,
\* whose only dependency is CORE, runs.
C18_Witness ==
    /\ pc["WORK"] = "waitDeps"
    /\ "CORE" \in startedAgents /\ "LOOP" \notin startedAgents
    /\ pc["WAVE"] = "running" /\ pc["CORE"] = "running"

\* This step runs startedAgents.add for agent a.
MarksLive(a) == Spawns(a) /\ pc'[a] = "running"

\* C19: a step that runs neither startedAgents.add nor startedAgents.delete
\* leaves startedAgents as it was, so the dependency checks of any loops that
\* run between two such steps all read the same set.
C19_ReadsStableBetweenMutations ==
    [][(\A a \in AgentNames : ~MarksLive(a) /\ ~ExitObserved(a)) =>
            startedAgents' = startedAgents]_vars

\* LOOP waits for its script; WORK and then CODE have read the registry in
\* their passes with no add or delete in between, and both wait.
C19_Witness ==
    /\ mainPc = "done"
    /\ pc["LOOP"] = "waitScript"
    /\ pc["WORK"] = "waitDeps" /\ pc["CODE"] = "waitDeps"
    /\ startedAgents = Independent("LOOP")

\* C21: with every launch script present, a worker that waits on its
\* dependencies, or in its restart delay, is launched in the end, also while
\* its dependencies keep exiting and being relaunched.  Stated for the runs in
\* which no spawn fails and the supervisor stays up.
C21_NoStarvation ==
    [](scripts = AgentNames /\ supervisor = "up" /\ spawnErrors = 0) =>
        \A w \in Flapping :
            (pc[w] \in {"waitDeps", "delay"}) ~> (pc[w] = "running")

Dependents ==
    [m \in AgentNames |-> {w \in AgentNames : m \in DepsOf(DEPENDENCIES, w)}]

\* C23: as long as the launch script of a worker is missing, no worker that
\* depends on it, directly or transitively, has been spawned or is in
\* startedAgents; so none ever is if the script is missing forever.
C23_MissingScriptBlocksDependents ==
    \A m \in AgentNames \ scripts :
        \A w \in Dependents[m] :
            /\ w \notin startedAgents
            /\ procs[w] = 0
            /\ pc[w] \in {"init", "waitDeps"}

\* LOOP's script is missing; CORE has been relaunched after an exit and runs;
\* WORK and CODE wait on their dependencies.
C23_Witness ==
    /\ "LOOP" \notin scripts /\ pc["LOOP"] = "waitScript"
    /\ exits = 1 /\ pc["CORE"] = "running" /\ procs["CORE"] = 1
    /\ pc["WORK"] = "waitDeps" /\ pc["CODE"] = "waitDeps"
    /\ Dependents["LOOP"] = {"WORK", "CODE"}

\* Every dependency name is a key of the table, no worker depends on itself,
\* the relation has no cycle, and CORE alone has no dependencies.
TableWellFormed ==
    /\ \A a \in DOMAIN DEPENDENCIES : DEPENDENCIES[a] \subseteq DOMAIN DEPENDENCIES
    /\ \A a \in DOMAIN DEPENDENCIES : a \notin DEPENDENCIES[a]
    /\ ~HasCycle(DEPENDENCIES)
    /\ {a \in DOMAIN DEPENDENCIES : DEPENDENCIES[a] = {}} = {"CORE"}

\* C24: the DEPENDENCIES table is well formed, and so, once every script is
\* present and if no process exits, no loop of the supervisor stays forever
\* in its wait on dependencies.
C24_WellFormedTable ==
    /\ []TableWellFormed
    /\ \A w \in AgentNames :
          ~<>[](/\ scripts = AgentNames /\ exits = 0
                /\ supervisor = "up" /\ pc[w] = "waitDeps")

\* Every script is present and no process has exited; LOOP, whose script came
\* late, has just been launched, and WORK still waits on it.
C24_Witness ==
    /\ scripts = AgentNames /\ exits = 0 /\ supervisor = "up" /\ ~pendingError
    /\ pc["LOOP"] = "running" /\ procs["LOOP"] = 1
    /\ pc["WORK"] = "waitDeps" /\ pc["CODE"] = "waitDeps"

\* C25: runlevel.latch is written only by main() after its readiness loop has
\* ended and after startAgent has run for the last agent; it does not exist
\* while the gate checks or sleeps, nor while some agent's loop is not started.
C25_RunlevelLatchLast ==
    [][/\ (runlevelLatch' /\ ~runlevelLatch) =>
            /\ mainPc = "orchestrate" /\ mainPc' = "done"
            /\ idx = Len(AGENTS)
            /\ \A a \in AgentNames : pc'[a] # "init"
       /\ mainPc' \in {"check", "sleep", "orchestrate"} => ~runlevelLatch'
       /\ runlevelLatch => runlevelLatch']_vars

\* runlevel.latch exists after a gate that was passed by the forced latch, with
\* LOOP's loop started and waiting for its script.
C25_Witness ==
    /\ runlevelLatch /\ mainPc = "done"
    /\ latch /\ ~latch0
    /\ pc["LOOP"] = "waitScript" /\ pc["LINE"] = "running"

\* C20 as stated: if the gate passes, every launch script exists and no worker
\* process ever exits, then eventually all nine workers are in startedAgents
\* together, and stay there.
C20_AllLiveForever ==
    ([](scripts = AgentNames /\ exits = 0) /\ <>GateReturned) =>
        <>[](startedAgents = AgentNames)

\* The same in the runs in which the supervisor stays up.
C20_AllLiveWhileSupervisorUp ==
    ([](scripts = AgentNames /\ exits = 0 /\ supervisor = "up") /\ <>GateReturned) =>
        <>[](startedAgents = AgentNames)

\* C26: start-pm2.sh reaches pm2 start, having slept at most MAX_RETRIES
\* times; the latch file exists when pm2 is started; LATCH_FORCED is written
\* only after the test that follows the wait loop found the latch absent, and
\* a latch that exists while the script waits or tests is left as it is.
C26_Pm2StartsWithLatch ==
    /\ <>(pm2Pc = "started")
    /\ [](RETRY <= MAX_RETRIES)
    /\ [](pm2Pc \in {"pm2", "started"} => ollamaLatch # "absent")
    /\ [][/\ (ollamaLatch' = "LATCH_FORCED" /\ ollamaLatch # "LATCH_FORCED") =>
                pm2Pc = "force"
          /\ pm2Pc' = "force" => pm2Pc \in {"if", "force"} /\ ollamaLatch = "absent"
          /\ (pm2Pc \in {"while", "sleep", "if"} /\ ollamaLatch # "absent") =>
                ollamaLatch' = ollamaLatch]_vars

\* pm2 has been started after fifteen sleeps with the latch forced, while
\* ollama-startup still polls.
C26_Witness ==
    /\ pm2Pc = "started" /\ RETRY = MAX_RETRIES /\ ollamaLatch = "LATCH_FORCED"
    /\ startupPc = "sleep" /\ curlLast = "fail"

\* pm2 has been started with a latch that ollama-startup created during the
\* wait: it was not overwritten.
C26_WitnessKept ==
    /\ pm2Pc = "started" /\ RETRY \in 1..(MAX_RETRIES - 1) /\ ollamaLatch = "EMPTY"

\* C27: ollama-startup creates the latch only after a curl call has succeeded;
\* while every call fails it has not left its loop, has created no latch, and
\* calls curl again and again.
C27_LatchOnlyAfterHealth ==
    /\ [][/\ (ollamaLatch = "absent" /\ ollamaLatch' = "EMPTY") =>
                startupPc = "touch" /\ curlLast = "ok"
          /\ startupPc' \in {"touch", "tail"} => curlLast' = "ok"]_vars
    /\ [](curlLast # "ok" => startupPc \in {"curl", "sleep"})
    /\ []<>(startupPc = "curl" \/ curlLast = "ok")

\* The latch has been created by ollama-startup after requests that failed and
\* one that succeeded, while start-pm2.sh still waits.
C27_Witness ==
    /\ startupPc = "tail" /\ curlLast = "ok" /\ curlFails = 2
    /\ ollamaLatch = "EMPTY" /\ pm2Pc = "sleep"

\* C28: in the WEBTRACON server a connection's client is in sseClients, once,
\* exactly from the run of its /events handler to the run of its 'close'
\* listener; the listener removes that client and no other; and no broadcast
\* writes to a client whose 'close' listener has run.
C28_SseRegistry ==
    /\ [](\A c \in Conns : c \in Range(sseClients) <=> conn[c] \in {"open", "dropped"})
    /\ [](Len(sseClients) = Cardinality(Range(sseClients)))
    /\ [](\A c \in wrote : conn[c] # "closed")
    /\ [][\A c \in Conns :
             (conn[c] # "closed" /\ conn'[c] = "closed") =>
                 sseClients' = SelectSeq(sseClients, LAMBDA x : x # c)]_vars

\* The second of two clients has closed; a broadcast of the prompt handler has
\* just written to the first, and to no other.
C28_Witness ==
    /\ conn[2] = "closed" /\ conn[1] = "open"
    /\ sseClients = <<1>>
    /\ wrote = {1}
    /\ reqs[1].pc = "streaming"
    /\ reqs[1].events # <<>>

\* C29 as stated: in the nexus-control server the 'close' listener of a
\* connection removes the client of that connection and no other, so every
\* connection that has not been closed stays registered in clients.
C29_CloseRemovesOnlyItsClient ==
    /\ [][\A c \in Conns :
             (nexusConn[c] # "closed" /\ nexusConn'[c] = "closed") =>
                 clients' = SelectSeq(clients, LAMBDA x : x.conn # c)]_vars
    /\ [](\A c \in Conns :
             nexusConn[c] \in {"open", "dropped"} =>
                 \E i \in 1..Len(clients) : clients[i].conn = c)

\* The same for connections registered at different milliseconds.
C29_CloseRemovesOnlyItsClientAtDistinctTimes ==
    [][\A c \in Conns :
          (/\ nexusConn[c] # "closed" /\ nexusConn'[c] = "closed"
           /\ \A d \in Conns \ {c} : nexusConn[d] # "none" => clientId[d] # clientId[c]) =>
              clients' = SelectSeq(clients, LAMBDA x : x.conn # c)]_vars

\* C30 as stated: a request whose error handler has run has been answered
\* {status: 'queued'}; a request whose handler has finished has got exactly one
\* response, no request gets two; an empty or blank prompt gets 400 and no
\* call of the inference server.
C30_ExactlyOneResponse ==
    \A r \in Reqs :
        /\ reqs[r].caught => reqs[r].responses = 1 /\ reqs[r].status = 200
        /\ reqs[r].pc = "done" => reqs[r].responses = 1
        /\ reqs[r].responses <= 1
        /\ (reqs[r].pc # "none" /\ EmptyPrompt(reqs[r].prompt)) =>
              reqs[r].status = 400 /\ reqs[r].calls = 0

\* The part of C30 about requests whose inference call was answered, and about
\* empty prompts.
C30_OneResponseUnlessCallFails ==
    \A r \in Reqs :
        /\ reqs[r].responses <= 1
        /\ reqs[r].pc \in {"streaming", "done"} /\ reqs[r].responses = 1 =>
              reqs[r].status \in {200, 400}
        /\ (reqs[r].pc # "none" /\ EmptyPrompt(reqs[r].prompt)) =>
              /\ reqs[r].pc = "done" /\ reqs[r].responses = 1
              /\ reqs[r].status = 400 /\ reqs[r].calls = 0 /\ ~reqs[r].caught
        /\ (reqs[r].pc # "none" /\ ~EmptyPrompt(reqs[r].prompt)) => reqs[r].calls = 1
        /\ (reqs[r].caught /\ reqs[r].status = 200) => reqs[r].responses = 1


\* The chunks of a stream that precede its first chunk marked done.
RECURSIVE BeforeDone(_)
BeforeDone(chunks) ==
    IF chunks = <<>> \/ Head(chunks).done THEN <<>>
    ELSE <<Head(chunks)>> \o BeforeDone(Tail(chunks))

\* One token event per chunk, in the order of the chunks.
TokenEvents(chunks) == [i \in 1..Len(chunks) |-> TokenEvent(chunks[i])]

\* C31: the broadcasts of one POST /api/prompt request are, at any moment, the
\* token events of the chunks received before the first chunk marked done, in
\* the order received; when the stream has completed they are followed by the
\* [DONE] event, once and last; when the call or the stream has failed they are
\* followed by the [ERROR] event and there is no [DONE] event; a request that
\* was refused, or whose call is still pending, has broadcast nothing.
C31_StreamBroadcastOrder ==
    \A r \in Reqs :
        LET q == reqs[r]
            tokens == TokenEvents(BeforeDone(q.received))
        IN  /\ q.pc \in {"none", "generating"} \/ q.status = 400 => q.events = <<>>
            /\ q.pc = "streaming" => q.events = tokens
            /\ q.pc = "done" /\ q.status = 200 /\ ~q.caught =>
                  q.events = Append(tokens, DoneEvent)
            /\ q.caught =>
                  /\ q.events = Append(tokens, ErrorEvent)
                  /\ DoneEvent \notin Range(q.events)

\* A stream of two chunks with different texts has ended; both were broadcast
\* to the open connection, in their order, and [DONE] after them.
C31_Witness ==
    /\ reqs[1].pc = "done" /\ ~reqs[1].caught
    /\ reqs[1].received = <<[response |-> "b", done |-> FALSE],
                            [response |-> "a", done |-> FALSE]>>
    /\ reqs[1].events = <<[agent |-> "Ollama", response |-> "b"],
                          [agent |-> "Ollama", response |-> "a"],
                          [agent |-> "Ollama", response |-> "[DONE]"]>>
    /\ wrote = {1}

\* A stream has failed after a chunk: its token was broadcast, then [ERROR].
C31_WitnessFailed ==
    /\ reqs[1].caught /\ reqs[1].status = 200
    /\ Len(reqs[1].received) = 1
    /\ reqs[1].events = <<TokenEvent(reqs[1].received[1]), ErrorEvent>>

\* A chunk marked done has ended the loop: its text was not broadcast.
C31_WitnessDoneChunk ==
    /\ reqs[1].pc = "done"
    /\ reqs[1].received = <<[response |-> "a", done |-> FALSE],
                            [response |-> "b", done |-> TRUE]>>
    /\ reqs[1].events = <<[agent |-> "Ollama", response |-> "a"], DoneEvent>>


\* C32 as stated: a call of generate of the api bridge of nexus-control has
\* sent exactly one request to the inference server, with an onToken callback
\* and without.
C32_OneRequestPerCall ==
    \A k \in Calls : gen[k].pc # "idle" => gen[k].sent = 1

\* The part of C32 about calls with an onToken callback; a call without one
\* that returns has sent two requests.
C32_OneRequestWithOnToken ==
    \A k \in Calls :
        /\ gen[k].pc # "idle" /\ gen[k].onToken => gen[k].sent = 1
        /\ gen[k].pc = "returned" /\ ~gen[k].onToken => gen[k].sent = 2
        /\ gen[k].pc = "returned" /\ gen[k].onToken => gen[k].result = gen[k].tokens


\* C33 as stated: in ai.sh, whatever calls of start_agent and stop_agent were
\* made on an agent, at most one heartbeat loop of the agent runs and the
\* pidfile names it; after stop_agent no heartbeat loop of the agent runs.
C33_OneHeartbeat ==
    \A a \in ShAgents :
        /\ Cardinality(heartbeats[a]) <= 1
        /\ heartbeats[a] # {} => pidfile[a] \in heartbeats[a]
        /\ lastCall[a] = "stopped" => heartbeats[a] = {}

\* What the pidfile does give: it names the loop started last, and no other
\* agent's; stop_agent leaves no pidfile and not the loop the pidfile named;
\* an agent started once has one loop at most.
C33_PidfileNamesLastStarted ==
    \A a \in ShAgents :
        /\ \A p \in heartbeats[a] : pidfile[a] # 0 => p <= pidfile[a]
        /\ \A b \in ShAgents \ {a} : pidfile[a] # 0 => pidfile[a] \notin heartbeats[b]
        /\ lastCall[a] = "stopped" => pidfile[a] = 0
        /\ agent_is_up(a) => heartbeats[a] # {}
        /\ heartbeats[a] \cap heartbeats[CHOOSE b \in ShAgents : b # a] = {}


\* C34 as stated: for every state with WAVE true for which evaluateCubeLogic
\* returns success true, COIN is even and CODE ends with a space (rule 3).
C34_Rule3Enforced ==
    cubeResult # NotEvaluated /\ cubeState.WAVE /\ cubeResult.success =>
        cubeState.COIN % 2 = 0 /\ endsWith(cubeState.CODE, " ")

\* What the code does with WAVE true: it succeeds exactly when CORE and LOOP
\* are false, by the return of rule 2, whatever COIN and CODE are.
C34_WaveSucceedsByRule2 ==
    cubeResult # NotEvaluated /\ cubeState.WAVE =>
        /\ cubeResult.success <=> ~cubeState.CORE /\ ~cubeState.LOOP
        /\ cubeResult.success =>
              cubeResult.message = "SUCCESS: LOOP is false, CODE ignored."

====
